---- MODULE Spec2Model ----
(***************************************************************************)
(* Workspace notifications (crates/workspace/src/notifications.rs).       *)
(*                                                                         *)
(* Each workspace owns an ordered registry `notifications` of             *)
(* (TypeId, id, handle) entries; the process owns one NotificationTracker  *)
(* (HashMap<TypeId, Vec<usize>>) recording what show_notification_once has *)
(* shown.  Handles are views created by the builder closures; every        *)
(* displayed view has a DismissEvent subscription whose callback calls     *)
(* dismiss_notification_internal(type_id, id) on its workspace.            *)
(*                                                                         *)
(* Spec runs every Workspace operation on the workspace Main; the          *)
(* NotificationTracker is the global of the whole process.                 *)
(***************************************************************************)
EXTENDS Integers, Sequences, FiniteSets, TLC

\* ---------------------------------------------------------------- bounds
MaxEntities == 3        \* views that may be created in one behaviour
MaxTasks == 2           \* futures that detach_and_notify_err may spawn

\* the workspaces of the process; Main is the one the UI operations act on
Workspaces == {"w1", "w2"}
Main == "w1"

\* instance ids; 0 is the id show_error uses
Ids == {0, 1}

\* TypeId::of::<MessageNotification>() and one other notification view type
MessageNotification == "MessageNotification"
OtherKinds == {"OtherNotification"}
Kinds == {MessageNotification} \cup OtherKinds

\* Strings are sequences of characters.
ClickMsg == <<"G", "o">>

\* Option<T>: None is the empty sequence, Some(x) the one-element sequence
None == <<>>
Some(x) == <<x>>
Errs == {"E1", "E2"}

\* Toast { id, msg, on_click: Option<(click_msg, callback)> }
Toasts ==
    {[id |-> i, msg |-> <<"A">>, on_click |-> None] : i \in Ids} \cup
    {[id |-> 0, msg |-> <<"B">>, on_click |-> Some(<<ClickMsg, "cb">>)]}

\* <E as Debug>::fmt for the error values of the model
Debug(err) == IF err = "E1" THEN <<"E", "1">> ELSE <<"E", "2">>

\* format!("Error: {err:?}")
ErrorPrefix == <<"E", "r", "r", "o", "r", ":", " ">>
FormatError(err) == ErrorPrefix \o Debug(err)

StartsWith(s, p) == Len(s) >= Len(p) /\ SubSeq(s, 1, Len(p)) = p

\* ----------------------------------------------------------------- state
VARIABLES
    notifications,   \* [Workspaces -> Seq([type_id, id, handle])]
    tracker,         \* NotificationTracker: kinds present |-> Seq(Ids)
    views,           \* entity map: handle h is views[h]
    subscriptions,   \* detached DismissEvent subscriptions
    last,            \* the operation that produced this state: its name, its
                     \* workspace, the number of re-render signals (cx.notify)
                     \* it raised, its effects in program order and the value
                     \* it returned
    window,          \* what an AsyncWindowContext reaches: "workspace" (the
                     \* root view is the workspace Main), "other" (another root
                     \* view) or "closed"
    executor,        \* the foreground executor: "running" or "torn_down"
    tasks            \* the futures spawned by detach_and_notify_err

vars == <<notifications, tracker, views, subscriptions, last, window, executor, tasks>>

\* MessageNotification::new(message)
MessageNotificationNew(message) ==
    [type_id |-> MessageNotification, message |-> message,
     on_click |-> None, click_message |-> None]

\* .with_click_message(click_msg).on_click(cb)
WithClick(view, click_msg, cb) ==
    [view EXCEPT !.click_message = Some(click_msg), !.on_click = Some(cb)]

\* a view of some other Notification type V; its content is opaque
OtherView(type_id) ==
    [type_id |-> type_id, message |-> None,
     on_click |-> None, click_message |-> None]

\* content of a view whose handle the registry has dropped: the workspace can
\* no longer reach it (other clones of the view may keep the entity, and with
\* it the detached subscription, alive)
DroppedView ==
    [type_id |-> "dropped", message |-> None,
     on_click |-> None, click_message |-> None]

\* what a caller's builder may return for show_notification::<V>
BuildersOf(type_id) ==
    IF type_id = MessageNotification
    THEN {MessageNotificationNew(<<"A">>)}
    ELSE {OtherView(type_id)}

\* the closure passed by show_toast
ToastView(toast) ==
    IF toast.on_click # None
    THEN WithClick(MessageNotificationNew(toast.msg),
                   toast.on_click[1][1], toast.on_click[1][2])
    ELSE MessageNotificationNew(toast.msg)

\* the closure passed by show_error
ErrorView(err) == MessageNotificationNew(FormatError(err))

\* ------------------------------------------------------- NotificationTracker
TrackerNew == [k \in {} |-> <<>>]

InSeq(s, x) == \E i \in 1..Len(s) : s[i] = x

\* variant: never finds the id
HasShownNever(t, type_id, id) == FALSE

\* variant: looks only at the first id recorded for the kind
HasShownFirstOnly(t, type_id, id) ==
    IF type_id \in DOMAIN t THEN Len(t[type_id]) > 0 /\ t[type_id][1] = id ELSE FALSE

\* has_shown_notification_once: .get(type_id).map(contains).unwrap_or(false)
HasShownNotificationOnce(t, type_id, id) ==
    IF type_id \in DOMAIN t THEN InSeq(t[type_id], id) ELSE FALSE

\* variant: insert(type_id, vec![id]) instead of pushing onto the entry
TrackerInsert(t, type_id, id) ==
    [k \in (DOMAIN t) \cup {type_id} |-> IF k = type_id THEN <<id>> ELSE t[k]]

\* tracker.entry(type_id).or_default().push(id)
TrackerPush(t, type_id, id) ==
    LET cur == IF type_id \in DOMAIN t THEN t[type_id] ELSE <<>>
    IN [k \in (DOMAIN t) \cup {type_id} |->
            IF k = type_id THEN Append(cur, id) ELSE t[k]]

\* ------------------------------------------------------------- registry
Matches(e, type_id, id) == <<e.type_id, e.id>> = <<type_id, id>>

\* variant: the duplicate check always passes
NoExistingUnchecked(ns, type_id, id) == TRUE

\* variant: the duplicate check looks only at the most recent entry
NoExistingLastOnly(ns, type_id, id) ==
    Len(ns) = 0 \/ ~Matches(ns[Len(ns)], type_id, id)

\* variant: the duplicate check compares instance ids only
NoExistingById(ns, type_id, id) ==
    \A i \in 1..Len(ns) : ns[i].id # id

\* the duplicate check of show_notification
NoExisting(ns, type_id, id) ==
    \A i \in 1..Len(ns) : <<ns[i].type_id, ns[i].id>> # <<type_id, id>>

\* variant: the retain compares ids only
RetainById(ns, type_id, id) ==
    SelectSeq(ns, LAMBDA e : e.id # id)

\* variant: Vec::swap_remove of the matching entry (the last entry takes its place)
RetainSwapRemove(ns, type_id, id) ==
    IF \E i \in 1..Len(ns) : Matches(ns[i], type_id, id)
    THEN LET p == CHOOSE i \in 1..Len(ns) : Matches(ns[i], type_id, id)
         IN [i \in 1..(Len(ns) - 1) |-> IF i = p THEN ns[Len(ns)] ELSE ns[i]]
    ELSE ns

\* variant: Vec::truncate at the matching entry
RetainTruncate(ns, type_id, id) ==
    IF \E i \in 1..Len(ns) : Matches(ns[i], type_id, id)
    THEN LET p == CHOOSE i \in 1..Len(ns) : Matches(ns[i], type_id, id)
         IN SubSeq(ns, 1, p - 1)
    ELSE ns

\* the retain of dismiss_notification_internal
Retain(ns, type_id, id) ==
    SelectSeq(ns, LAMBDA e : ~Matches(e, type_id, id))

\* handles dropped by the retain; cx.notify() is called once for each
Dropped(ns, type_id, id) ==
    {ns[i].handle : i \in {j \in 1..Len(ns) : Matches(ns[j], type_id, id)}}

\* An operation threads a context through the calls it makes:
\*   ns      the workspace's notifications
\*   views, subs   the app's entities and subscriptions
\*   notified  number of cx.notify() calls
\*   effects   what the operation did, in program order
Cx(w) ==
    [ns |-> notifications[w], views |-> views, subs |-> subscriptions,
     notified |-> 0, effects |-> <<>>]

\* n times the effect e
Repeat(e, n) == [i \in 1..n |-> e]

\* Workspace::dismiss_notification_internal
DismissNotificationInternal(c, type_id, id) ==
    [c EXCEPT !.ns = Retain(c.ns, type_id, id),
              !.views = [h \in 1..Len(c.views) |->
                            IF h \in Dropped(c.ns, type_id, id)
                            THEN DroppedView ELSE c.views[h]],
              !.notified = c.notified + Cardinality(Dropped(c.ns, type_id, id)),
              !.effects = c.effects \o
                  Repeat("notify", Cardinality(Dropped(c.ns, type_id, id)))]

\* Workspace::dismiss_notification
DismissNotificationFn(c, type_id, id) == DismissNotificationInternal(c, type_id, id)

\* variant: the builder runs before the duplicate check and the candidate view
\* is discarded when the check fails
ShowNotificationFnBuildFirst(c, w, type_id, id, view) ==
    LET h == Len(c.views) + 1
    IN IF NoExisting(c.ns, type_id, id)
       THEN [c EXCEPT
                !.views = Append(c.views, view),
                !.subs = c.subs \cup
                    {[emitter |-> h, ws |-> w, type_id |-> type_id, id |-> id]},
                !.ns = Append(c.ns, [type_id |-> type_id, id |-> id, handle |-> h]),
                !.notified = c.notified + 1,
                !.effects = c.effects \o
                    <<"build", "check", "subscribe", "push", "notify">>]
       ELSE [c EXCEPT !.views = Append(c.views, DroppedView),
                      !.effects = c.effects \o <<"build", "check">>]

\* variant: the handle is pushed before the subscription is made
ShowNotificationFnPushFirst(c, w, type_id, id, view) ==
    IF NoExisting(c.ns, type_id, id)
    THEN LET h == Len(c.views) + 1
         IN [c EXCEPT
                !.views = Append(c.views, view),
                !.subs = c.subs \cup
                    {[emitter |-> h, ws |-> w, type_id |-> type_id, id |-> id]},
                !.ns = Append(c.ns, [type_id |-> type_id, id |-> id, handle |-> h]),
                !.notified = c.notified + 1,
                !.effects = c.effects \o
                    <<"check", "build", "push", "subscribe", "notify">>]
    ELSE [c EXCEPT !.effects = c.effects \o <<"check">>]

\* Workspace::show_notification; `view` is what the builder returns if invoked
ShowNotificationFn(c, w, type_id, id, view) ==
    IF NoExisting(c.ns, type_id, id)
    THEN LET h == Len(c.views) + 1
         IN [c EXCEPT
                !.views = Append(c.views, view),
                !.subs = c.subs \cup
                    {[emitter |-> h, ws |-> w, type_id |-> type_id, id |-> id]},
                !.ns = Append(c.ns, [type_id |-> type_id, id |-> id, handle |-> h]),
                !.notified = c.notified + 1,
                !.effects = c.effects \o
                    <<"check", "build", "subscribe", "push", "notify">>]
    ELSE [c EXCEPT !.effects = c.effects \o <<"check">>]

\* Workspace::show_error
ShowErrorFn(c, w, err) ==
    ShowNotificationFn([c EXCEPT !.effects = Append(c.effects, "show_error")],
                       w, MessageNotification, 0, ErrorView(err))

\* variant: one registry shared by all workspaces of the process
StoreShared(c, w) ==
    /\ Len(c.views) <= MaxEntities
    /\ notifications' = [x \in Workspaces |-> c.ns]
    /\ views' = c.views
    /\ subscriptions' = c.subs

\* write the context of a finished operation back to workspace w and the app
Store(c, w) ==
    /\ Len(c.views) <= MaxEntities
    /\ notifications' = [notifications EXCEPT ![w] = c.ns]
    /\ views' = c.views
    /\ subscriptions' = c.subs

\* commit a finished Workspace operation (none of them returns a value)
Commit(c, w, op) ==
    /\ Store(c, w)
    /\ last' = [op |-> op, ws |-> w, notified |-> c.notified,
                effects |-> c.effects, ret |-> None]
    /\ UNCHANGED <<window, executor, tasks>>

\* ------------------------------------------------------------ operations
Init ==
    /\ notifications = [w \in Workspaces |-> <<>>]
    /\ tracker = TrackerNew
    /\ views = <<>>
    /\ subscriptions = {}
    /\ last = [op |-> "init", ws |-> Main, notified |-> 0, effects |-> <<>>,
               ret |-> None]
    /\ window = "workspace"
    /\ executor = "running"
    /\ tasks = <<>>

\* workspace.show_notification::<V>(id, cx, build_notification)
ShowNotification(w, type_id, id, view) ==
    /\ tracker' = tracker
    /\ Commit(ShowNotificationFn(Cx(w), w, type_id, id, view),
              w, "show_notification")

\* workspace.show_notification_once::<V>(id, cx, build_notification)
ShowNotificationOnce(w, type_id, id, view) ==
    IF ~HasShownNotificationOnce(tracker, type_id, id)
    THEN /\ tracker' = TrackerPush(tracker, type_id, id)
         /\ Commit(ShowNotificationFn(Cx(w), w, type_id, id, view),
                   w, "show_notification_once")
    ELSE /\ tracker' = tracker
         /\ Commit(Cx(w), w, "show_notification_once")

\* workspace.show_error(&err, cx)
ShowError(w, err) ==
    /\ tracker' = tracker
    /\ Commit(ShowErrorFn(Cx(w), w, err), w, "show_error")

\* workspace.dismiss_notification::<V>(id, cx)
DismissNotification(w, type_id, id) ==
    /\ tracker' = tracker
    /\ Commit(DismissNotificationFn(Cx(w), type_id, id),
              w, "dismiss_notification")

\* variant: show_toast without the leading dismiss_notification
ShowToastNoDismiss(w, toast) ==
    /\ tracker' = tracker
    /\ Commit(ShowNotificationFn(Cx(w), w, MessageNotification, toast.id, ToastView(toast)),
              w, "show_toast")

\* workspace.show_toast(toast, cx)
ShowToast(w, toast) ==
    /\ tracker' = tracker
    /\ Commit(ShowNotificationFn(
                  DismissNotificationFn(Cx(w), MessageNotification, toast.id),
                  w, MessageNotification, toast.id, ToastView(toast)),
              w, "show_toast")

\* workspace.dismiss_toast(id, cx)
DismissToast(w, id) ==
    /\ tracker' = tracker
    /\ Commit(DismissNotificationFn(Cx(w), MessageNotification, id),
              w, "dismiss_toast")

\* the view `s.emitter` emits DismissEvent and the subscription's callback runs:
\* this.dismiss_notification_internal(type_id, id, cx)
DismissSignal(s) ==
    /\ s \in subscriptions
    /\ tracker' = tracker
    /\ Commit(DismissNotificationInternal(Cx(s.ws), s.type_id, s.id),
              s.ws, "dismiss_signal")

\* the (kind, id) pairs callers use with show_notification_once
OnceKeys == OtherKinds \X Ids

Next ==
    \/ \E k \in Kinds, id \in Ids :
          \E view \in BuildersOf(k) : ShowNotification(Main, k, id, view)
    \/ \E key \in OnceKeys :
          \E view \in BuildersOf(key[1]) :
              ShowNotificationOnce(Main, key[1], key[2], view)
    \/ \E err \in Errs : ShowError(Main, err)
    \/ \E k \in Kinds, id \in Ids : DismissNotification(Main, k, id)
    \/ \E toast \in Toasts : ShowToast(Main, toast)
    \/ \E id \in Ids : DismissToast(Main, id)
    \/ \E s \in subscriptions : DismissSignal(s)

Spec == Init /\ [][Next]_vars

\* ------------------------------------------------------- NotifyResultExt
\* Result<T, E>
Results ==
    {[tag |-> "Ok", val |-> "v"]} \cup {[tag |-> "Err", val |-> e] : e \in Errs}

\* the result of a future that has not completed
Pending == [tag |-> "Pending", val |-> ""]

\* log::error!("TODO {err:?}")
Log(c) == [c EXCEPT !.effects = Append(c.effects, "log")]

\* variant: the error is logged and not shown
NotifyErrFnLogOnly(c, w, r) ==
    IF r.tag = "Ok" THEN c ELSE Log(c)

\* the effect of notify_err on the workspace
NotifyErrFn(c, w, r) ==
    IF r.tag = "Ok" THEN c ELSE ShowErrorFn(Log(c), w, r.val)

\* the value notify_err and notify_async_err return
NotifyRet(r) == IF r.tag = "Ok" THEN Some(r.val) ELSE None

\* variant: update_root result used without the downcast to Workspace
NotifyAsyncErrFnNoDowncast(c, r) ==
    IF r.tag = "Ok"
    THEN c
    ELSE LET c1 == [c EXCEPT !.effects = c.effects \o <<"log", "update_root">>]
         IN IF window # "closed" THEN ShowErrorFn(c1, Main, r.val) ELSE c1

\* the effect of notify_async_err: cx.update_root fails when the window is
\* closed, and the closure shows the error only if the root view downcasts to
\* Workspace; `.ok()` drops a failure
NotifyAsyncErrFn(c, r) ==
    IF r.tag = "Ok"
    THEN c
    ELSE LET c1 == [c EXCEPT !.effects = c.effects \o <<"log", "update_root">>]
         IN IF window = "workspace" THEN ShowErrorFn(c1, Main, r.val) ELSE c1

\* commit an operation that returns a value
CommitRet(c, w, op, ret) ==
    /\ Store(c, w)
    /\ last' = [op |-> op, ws |-> w, notified |-> c.notified,
                effects |-> c.effects, ret |-> ret]
    /\ UNCHANGED <<window, executor, tracker>>

\* a step that touches no workspace
Step(op, effects) ==
    /\ last' = [op |-> op, ws |-> Main, notified |-> 0, effects |-> effects,
                ret |-> None]
    /\ UNCHANGED <<notifications, tracker, views, subscriptions>>

\* result.notify_err(workspace, cx)
NotifyErr(w, r) ==
    /\ CommitRet(NotifyErrFn(Cx(w), w, r), w, "notify_err", NotifyRet(r))
    /\ tasks' = tasks

\* result.notify_async_err(&mut cx), called from UI-side async code
NotifyAsyncErr(r) ==
    /\ CommitRet(NotifyAsyncErrFn(Cx(Main), r), Main, "notify_async_err", NotifyRet(r))
    /\ tasks' = tasks

\* task.detach_and_notify_err(cx): cx.spawn(..).detach()
DetachAndNotifyErr ==
    /\ Len(tasks) < MaxTasks
    /\ tasks' = Append(tasks, [state |-> "awaiting", result |-> Pending])
    /\ Step("detach_and_notify_err", <<"spawn">>)
    /\ UNCHANGED <<window, executor>>

\* self.await: the wrapped task completes on its own lane with result r
TaskComplete(t, r) ==
    /\ t \in 1..Len(tasks)
    /\ tasks[t].state = "awaiting"
    /\ tasks' = [tasks EXCEPT ![t] = [state |-> "ready", result |-> r]]
    /\ Step("task_complete", <<>>)
    /\ UNCHANGED <<window, executor>>

\* variant: the spawned future finishes without notifying
TaskResumeSilent(t) ==
    /\ t \in 1..Len(tasks)
    /\ tasks[t].state = "ready"
    /\ tasks' = [tasks EXCEPT ![t].state = "done"]
    /\ CommitRet(Cx(Main), Main, "task_resume", NotifyRet(tasks[t].result))

\* the spawned future is polled on the foreground executor after the await:
\* .notify_async_err(&mut cx).  A finished future is "notified" when its
\* continuation called show_error and "done" otherwise.
TaskResume(t) ==
    /\ t \in 1..Len(tasks)
    /\ tasks[t].state = "ready"
    /\ LET c == NotifyAsyncErrFn(Cx(Main), tasks[t].result)
       IN /\ tasks' = [tasks EXCEPT ![t].state =
                          IF InSeq(c.effects, "show_error") THEN "notified" ELSE "done"]
          /\ CommitRet(c, Main, "task_resume", NotifyRet(tasks[t].result))

\* the window is closed; its root view is dropped
CloseWindow ==
    /\ window # "closed"
    /\ window' = "closed"
    /\ Step("close_window", <<>>)
    /\ UNCHANGED <<executor, tasks>>

\* the executor is dropped: futures that have not finished are never polled again
TearDown ==
    /\ executor' = "torn_down"
    /\ tasks' = [t \in 1..Len(tasks) |->
                    IF tasks[t].state \in {"done", "notified"} THEN tasks[t]
                    ELSE [tasks[t] EXCEPT !.state = "cancelled"]]
    /\ Step("tear_down", <<>>)
    /\ UNCHANGED window

InitAdapter ==
    /\ notifications = [w \in Workspaces |-> <<>>]
    /\ tracker = TrackerNew
    /\ views = <<>>
    /\ subscriptions = {}
    /\ last = [op |-> "init", ws |-> Main, notified |-> 0, effects |-> <<>>,
               ret |-> None]
    /\ window \in {"workspace", "other"}
    /\ executor = "running"
    /\ tasks = <<>>

\* futures that may still show an error
Unfinished == Cardinality({t \in 1..Len(tasks) : tasks[t].state \in {"awaiting", "ready"}})

\* an operation other than a spawned future may create a view
Room == Len(views) + Unfinished < MaxEntities

\* the workspace Main can be called: nothing runs after the executor is gone,
\* and the workspace is dropped with its window
Live == executor = "running" /\ window # "closed"

NextAdapter ==
    \/ Live /\ Room /\ \E r \in Results : NotifyErr(Main, r)
    \/ executor = "running" /\ Room /\ \E r \in Results : NotifyAsyncErr(r)
    \/ executor = "running" /\ CloseWindow
    \/ Live /\ Room /\ \E toast \in Toasts : ShowToast(Main, toast)
    \/ Live /\ \E id \in Ids : DismissToast(Main, id)
    \/ Live /\ \E s \in subscriptions : DismissSignal(s)

SpecAdapter == InitAdapter /\ [][NextAdapter]_vars

\* Detached futures interleaved with the UI operations that touch the key of
\* the error notification
NextTasks ==
    \/ Live /\ Room /\ DetachAndNotifyErr
    \/ executor = "running" /\ \E t \in 1..MaxTasks, r \in Results : TaskComplete(t, r)
    \/ executor = "running" /\ \E t \in 1..MaxTasks : TaskResume(t)
    \/ executor = "running" /\ CloseWindow
    \/ executor = "running" /\ TearDown
    \/ Live /\ Room /\ \E toast \in {x \in Toasts : x.id = 0} : ShowToast(Main, toast)
    \/ Live /\ DismissToast(Main, 0)

\* the foreground executor polls a future that is ready
SpecTasks ==
    /\ InitAdapter
    /\ [][NextTasks]_vars
    /\ \A t \in 1..MaxTasks : WF_vars(executor = "running" /\ TaskResume(t))

\* Several workspaces of one process: each has its own registry, all share the
\* NotificationTracker global.
NextProcess ==
    \/ \E w \in Workspaces, key \in OnceKeys :
          \E view \in BuildersOf(key[1]) :
              ShowNotificationOnce(w, key[1], key[2], view)
    \/ \E w \in Workspaces, key \in OnceKeys :
          \E view \in BuildersOf(key[1]) : ShowNotification(w, key[1], key[2], view)
    \/ \E w \in Workspaces, key \in OnceKeys : DismissNotification(w, key[1], key[2])
    \/ \E s \in subscriptions : DismissSignal(s)

SpecProcess == Init /\ [][NextProcess]_vars

\* ----------------------------------------------------------- properties
TypeOK ==
    /\ Len(views) <= MaxEntities
    /\ \A w \in Workspaces : \A i \in 1..Len(notifications[w]) :
          notifications[w][i].handle \in 1..Len(views)

Range(s) == {s[i] : i \in 1..Len(s)}
Handles(ns) == {e.handle : e \in Range(ns)}
Count(ns, type_id, id) ==
    Cardinality({i \in 1..Len(ns) : ns[i].type_id = type_id /\ ns[i].id = id})
EntryOf(ns, type_id, id) ==
    ns[CHOOSE i \in 1..Len(ns) : ns[i].type_id = type_id /\ ns[i].id = id]
Pos(ns, h) == CHOOSE i \in 1..Len(ns) : ns[i].handle = h
Recorded(t, type_id, id) == type_id \in DOMAIN t /\ id \in Range(t[type_id])
RegistryUntouched ==
    /\ notifications' = notifications
    /\ views' = views
    /\ subscriptions' = subscriptions
    /\ last'.notified = 0

\* C1: in every reachable state the registry of every workspace holds at most
\* one entry per (kind, instance-id) pair.
C1_AtMostOnePerKey ==
    \A w \in Workspaces, k \in Kinds, id \in Ids : Count(notifications[w], k, id) <= 1

\* a duplicate show was attempted and suppressed while two entries are active
C1_Witness ==
    /\ last.op \in {"show_notification", "show_notification_once", "show_error"}
    /\ last.notified = 0
    /\ Len(notifications[Main]) >= 2

\* C2: show_notification for a (kind, id) that already has an active entry leaves
\* the registry, the views (no handle is produced), the subscriptions and the
\* re-render count untouched; the same holds when the call comes from show_error.
C2_DuplicateShowIsNoOp ==
    [][/\ \A k \in Kinds, id \in Ids : \A view \in BuildersOf(k) :
             (/\ last'.op = "show_notification"
              /\ Count(notifications[Main], k, id) >= 1
              /\ ShowNotification(Main, k, id, view))
                 => RegistryUntouched
       /\ \A err \in Errs :
             (/\ last'.op = "show_error"
              /\ Count(notifications[Main], MessageNotification, 0) >= 1
              /\ ShowError(Main, err))
                 => RegistryUntouched]_vars

\* a show_notification that raised no re-render signal: its key was active
C2_Witness ==
    /\ last.op = "show_notification"
    /\ last.notified = 0
    /\ Len(notifications[Main]) >= 1

\* C3: after dismiss_notification(kind, id) no entry matches (kind, id); when none
\* matched before the call, registry, once-tracker, views and subscriptions are
\* unchanged and no re-render signal is raised.
C3_DismissRemovesOrNoOp ==
    [][\A k \in Kinds, id \in Ids :
          (last'.op = "dismiss_notification" /\ DismissNotification(Main, k, id)) =>
              /\ Count(notifications'[Main], k, id) = 0
              /\ Count(notifications[Main], k, id) = 0 =>
                     (RegistryUntouched /\ tracker' = tracker)]_vars

\* a dismiss_notification that removed an entry and left another one active
C3_Witness ==
    /\ last.op = "dismiss_notification"
    /\ last.notified = 1
    /\ Len(notifications[Main]) >= 1

\* new keeps the entries it shares with old in the order they had in old
OrderKept(old, new) ==
    \A i, j \in 1..Len(new) :
        (i < j /\ new[i] \in Range(old) /\ new[j] \in Range(old))
            => Pos(old, new[i].handle) < Pos(old, new[j].handle)

\* C4: the registry is in insertion order: a show that succeeds appends one
\* entry after all existing entries, a dismiss leaves exactly the entries that do
\* not match, and every step keeps the surviving entries in their relative order.
C4_InsertionOrder ==
    [][LET old == notifications[Main]
           new == notifications'[Main]
       IN /\ new # old =>
                /\ OrderKept(old, new)
                /\ \A i \in 1..Len(new) : new[i] \notin Range(old) => i = Len(new)
          /\ \A k \in Kinds, id \in Ids : \A view \in BuildersOf(k) :
                (/\ last'.op = "show_notification"
                 /\ Count(old, k, id) = 0
                 /\ ShowNotification(Main, k, id, view)) =>
                    /\ Len(new) = Len(old) + 1
                    /\ SubSeq(new, 1, Len(old)) = old
                    /\ new[Len(new)] =
                          [type_id |-> k, id |-> id, handle |-> Len(views) + 1]
          /\ \A k \in Kinds, id \in Ids :
                (last'.op = "dismiss_notification" /\ DismissNotification(Main, k, id)) =>
                    /\ Range(new) =
                          {e \in Range(old) : ~(e.type_id = k /\ e.id = id)}
                    /\ Len(new) = Cardinality(Range(new))]_vars

\* three entries were shown and the middle one has just been dismissed
C4_Witness ==
    /\ last.op = "dismiss_notification"
    /\ last.notified = 1
    /\ Len(views) = 3
    /\ Len(notifications[Main]) = 2
    /\ notifications[Main][1].handle = 1
    /\ notifications[Main][2].handle = 3

\* C5: a show_notification_once call leaves its pair recorded, and a pair that
\* has_shown_notification_once reports stays reported after every later
\* operation, dismissals of the notification included.
C5_ShownOnceForever ==
    [][/\ \A key \in OnceKeys : \A view \in BuildersOf(key[1]) :
             (/\ last'.op = "show_notification_once"
              /\ ShowNotificationOnce(Main, key[1], key[2], view)) =>
                 HasShownNotificationOnce(tracker', key[1], key[2])
       /\ \A k \in Kinds, id \in Ids :
             HasShownNotificationOnce(tracker, k, id) =>
                 HasShownNotificationOnce(tracker', k, id)]_vars

\* two ids of one kind are recorded and the notifications have been dismissed,
\* the last one by its dismissal signal
C5_Witness ==
    /\ \E k \in Kinds : k \in DOMAIN tracker /\ Len(tracker[k]) = 2
    /\ notifications[Main] = <<>>
    /\ last.op = "dismiss_signal"
    /\ last.notified = 1

\* C6: show_notification_once for a pair already in the once-tracker does not
\* invoke its builder (no view is created) and changes neither the registry nor
\* the once-tracker.
C6_SecondOnceIsNoOp ==
    [][\A key \in OnceKeys : \A view \in BuildersOf(key[1]) :
          (/\ last'.op = "show_notification_once"
           /\ Recorded(tracker, key[1], key[2])
           /\ ShowNotificationOnce(Main, key[1], key[2], view))
              => (RegistryUntouched /\ tracker' = tracker)]_vars

\* a show_notification_once that did nothing although no entry is active: its
\* pair was recorded by an earlier call whose notification has been dismissed
C6_Witness ==
    /\ last.op = "show_notification_once"
    /\ last.notified = 0
    /\ notifications[Main] = <<>>
    /\ Len(views) >= 1

NoDuplicateIds ==
    \A k \in DOMAIN tracker : \A i, j \in 1..Len(tracker[k]) :
        i # j => tracker[k][i] # tracker[k][j]

\* C7: an instance-id appears at most once in a kind's sequence of the
\* once-tracker, and no step removes a recorded (kind, id) pair.
C7_TrackerMonotonic ==
    /\ []NoDuplicateIds
    /\ [][\A k \in DOMAIN tracker :
             k \in DOMAIN tracker' /\ Range(tracker[k]) \subseteq Range(tracker'[k])]_vars

\* a kind has two ids recorded and a further show_notification_once was refused
C7_Witness ==
    /\ \E k \in Kinds : k \in DOMAIN tracker /\ Len(tracker[k]) = 2
    /\ last.op = "show_notification_once"
    /\ last.notified = 0
    /\ notifications[Main] = <<>>

\* C8: after show_toast(t) the registry holds exactly one MessageNotification
\* entry with id t.id; its handle is the view the call built from t (it shows
\* t.msg), and a handle that held the key before the call is gone.
C8_ToastReplaces ==
    [][\A toast \in Toasts :
          (last'.op = "show_toast" /\ ShowToast(Main, toast)) =>
              LET new == notifications'[Main]
              IN /\ Count(new, MessageNotification, toast.id) = 1
                 /\ EntryOf(new, MessageNotification, toast.id).handle = Len(views) + 1
                 /\ Len(views') = Len(views) + 1
                 /\ views'[Len(views')].message = toast.msg
                 /\ Handles(new) \cap
                       {e.handle : e \in {x \in Range(notifications[Main]) :
                            x.type_id = MessageNotification /\ x.id = toast.id}} = {}]_vars

\* a show_toast that dismissed the active toast with its id and showed a new one
C8_Witness ==
    /\ last.op = "show_toast"
    /\ last.notified = 2
    /\ Len(notifications[Main]) >= 2

\* C9: after show_error(err) the registry holds exactly one MessageNotification
\* entry with id 0 and the message it displays starts with "Error: ".
C9_ErrorShown ==
    last.op = "show_error" =>
        /\ Count(notifications[Main], MessageNotification, 0) = 1
        /\ StartsWith(views[EntryOf(notifications[Main], MessageNotification, 0).handle].message,
                      ErrorPrefix)

\* the entry with id 0 was produced by an earlier show_error and is still active
ErrorActive(ns) ==
    /\ Count(ns, MessageNotification, 0) = 1
    /\ StartsWith(views[EntryOf(ns, MessageNotification, 0).handle].message, ErrorPrefix)

\* C10: show_error(e2) called while the notification of an earlier show_error is
\* active leaves exactly one MessageNotification entry with id 0, and that entry
\* displays "Error: {e2:?}".
C10_ErrorReplaces ==
    [][\A err \in Errs :
          (/\ last'.op = "show_error"
           /\ ErrorActive(notifications[Main])
           /\ ShowError(Main, err)) =>
              LET new == notifications'[Main]
              IN /\ Count(new, MessageNotification, 0) = 1
                 /\ views'[EntryOf(new, MessageNotification, 0).handle].message
                       = FormatError(err)]_vars

\* the entries of ns whose kind is not type_id
OfOtherKinds(ns, type_id) == SelectSeq(ns, LAMBDA e : e.type_id # type_id)

\* C11: when a handle that is in the registry emits its dismissal signal, the
\* entry holding that handle is removed and the other entries stay, in the same
\* relative order.
C11_SignalRemovesEntry ==
    [][\A s \in subscriptions :
          (/\ last'.op = "dismiss_signal"
           /\ s.emitter \in Handles(notifications[s.ws])
           /\ DismissSignal(s)) =>
              LET old == notifications[s.ws]
                  new == notifications'[s.ws]
              IN /\ Handles(new) = Handles(old) \ {s.emitter}
                 /\ Range(new) \subseteq Range(old)
                 /\ Len(new) = Len(old) - 1
                 /\ OrderKept(old, new)]_vars

\* three entries were shown and the middle one was removed by its own signal
C11_Witness ==
    /\ last.op = "dismiss_signal"
    /\ last.notified = 1
    /\ Len(views) = 3
    /\ Len(notifications[Main]) = 2
    /\ notifications[Main][1].handle = 1
    /\ notifications[Main][2].handle = 3

\* C12: kinds are separate namespaces.  show_notification for (K1, id) while
\* (K2, id) is active adds a second entry; dismiss_notification for (K1, id)
\* leaves the entries of other kinds as they are; show_toast, dismiss_toast and
\* show_error all act on the MessageNotification kind only, where they meet:
\* dismiss_toast removes whatever holds (MessageNotification, id).
C12_KindsDoNotCollide ==
    [][LET old == notifications[Main]
           new == notifications'[Main]
       IN /\ \A k \in Kinds, id \in Ids : \A view \in BuildersOf(k) :
                (/\ last'.op = "show_notification"
                 /\ Count(old, k, id) = 0
                 /\ \E k2 \in Kinds \ {k} : Count(old, k2, id) = 1
                 /\ ShowNotification(Main, k, id, view)) =>
                    /\ Len(new) = Len(old) + 1
                    /\ Count(new, k, id) = 1
                    /\ OfOtherKinds(new, k) = OfOtherKinds(old, k)
          /\ \A k \in Kinds, id \in Ids :
                (last'.op = "dismiss_notification" /\ DismissNotification(Main, k, id))
                    => OfOtherKinds(new, k) = OfOtherKinds(old, k)
          /\ \A id \in Ids :
                (last'.op = "dismiss_toast" /\ DismissToast(Main, id)) =>
                    /\ Count(new, MessageNotification, id) = 0
                    /\ OfOtherKinds(new, MessageNotification)
                          = OfOtherKinds(old, MessageNotification)
          /\ last'.op \in {"show_toast", "show_error"} =>
                /\ OfOtherKinds(new, MessageNotification)
                      = OfOtherKinds(old, MessageNotification)
                /\ \A e \in Range(new) \ Range(old) : e.type_id = MessageNotification
          /\ last'.op = "show_error" =>
                \A e \in Range(new) \ Range(old) : e.id = 0]_vars

\* a notification was shown for an id that another kind already uses
C12_Witness ==
    /\ last.op = "show_notification"
    /\ last.notified = 1
    /\ \E id \in Ids : \A k \in Kinds : Count(notifications[Main], k, id) = 1

\* effect a occurs in the log before some later effect b
Before(log, a, b) ==
    \E i, j \in 1..Len(log) : i < j /\ log[i] = a /\ log[j] = b

Occurrences(log, e) == Cardinality({i \in 1..Len(log) : log[i] = e})

\* operations that run in the UI-owning context
UiOps == {"notify_err", "notify_async_err", "task_resume", "show_toast",
          "dismiss_toast", "show_error", "show_notification",
          "show_notification_once", "dismiss_notification", "dismiss_signal"}

\* C14: notify_err on Err(e) logs, hands e to show_error on the workspace (after
\* which the registry holds a MessageNotification entry with id 0) and returns
\* None; on Ok(v) it returns Some(v) and leaves registry and once-tracker as
\* they were.
C14_NotifyErr ==
    [][\A r \in Results :
          (last'.op = "notify_err" /\ NotifyErr(Main, r)) =>
              IF r.tag = "Err"
              THEN /\ last'.ret = None
                   /\ Occurrences(last'.effects, "show_error") = 1
                   /\ Before(last'.effects, "log", "show_error")
                   /\ Count(notifications'[Main], MessageNotification, 0) = 1
                   /\ \/ Count(notifications[Main], MessageNotification, 0) = 1
                      \/ views'[EntryOf(notifications'[Main], MessageNotification, 0).handle].message
                            = FormatError(r.val)
              ELSE /\ last'.ret = Some(r.val)
                   /\ RegistryUntouched
                   /\ tracker' = tracker
                   /\ last'.effects = <<>>]_vars

C14_Witness ==
    /\ last.op = "notify_err"
    /\ last.ret = None
    /\ InSeq(last.effects, "show_error")
    /\ last.notified = 1

\* C15: notify_async_err on Err(e) while the window is closed or its root view
\* is not the workspace attempts update_root once, shows nothing, changes
\* neither registry nor once-tracker, and returns None.
C15_AsyncErrDropped ==
    [][\A r \in Results :
          (/\ last'.op = "notify_async_err"
           /\ r.tag = "Err"
           /\ window # "workspace"
           /\ NotifyAsyncErr(r)) =>
              /\ last'.ret = None
              /\ Occurrences(last'.effects, "update_root") = 1
              /\ ~InSeq(last'.effects, "show_error")
              /\ RegistryUntouched
              /\ tracker' = tracker]_vars

C15_Witness ==
    /\ last.op = "notify_async_err"
    /\ window = "closed"
    /\ InSeq(last.effects, "update_root")
    /\ last.ret = None

C17_BuildBeforeCheck ==
    last.op = "show_notification" => Before(last.effects, "build", "check")

\* C17 amended: the duplicate check comes first.  Every invocation of the
\* builder directly follows a duplicate check that passed, and a show_notification
\* call for an active (kind, id) does not invoke the builder: no view is
\* created, nothing is subscribed and nothing is displayed.
C17_CheckBeforeBuild ==
    /\ [](\A i \in 1..Len(last.effects) :
             last.effects[i] = "build" => (i > 1 /\ last.effects[i - 1] = "check"))
    /\ [][\A k \in Kinds, id \in Ids : \A view \in BuildersOf(k) :
             (/\ last'.op = "show_notification"
              /\ Count(notifications[Main], k, id) >= 1
              /\ ShowNotification(Main, k, id, view)) =>
                 /\ last'.effects = <<"check">>
                 /\ RegistryUntouched]_vars

\* a show_notification call that ran the duplicate check and nothing else
C17_Witness ==
    /\ last.op = "show_notification"
    /\ last.effects = <<"check">>
    /\ Len(notifications[Main]) >= 1

\* C18: every entry of a registry has a DismissEvent subscription on its handle
\* whose callback dismisses the entry's own (kind, id) in the entry's workspace,
\* and within an operation the subscription is made before the handle is pushed.
C18_SubscribedBeforeShown ==
    /\ \A w \in Workspaces : \A e \in Range(notifications[w]) :
          [emitter |-> e.handle, ws |-> w, type_id |-> e.type_id, id |-> e.id]
              \in subscriptions
    /\ \A j \in 1..Len(last.effects) :
          last.effects[j] = "push" =>
              \E i \in 1..(j - 1) : last.effects[i] = "subscribe"
                  /\ \A m \in (i + 1)..(j - 1) : last.effects[m] # "push"

\* an operation has just pushed a handle and two entries are displayed
C18_Witness ==
    /\ \E j \in 1..Len(last.effects) : last.effects[j] = "push"
    /\ Len(notifications[Main]) >= 2

\* C19: the dismissal signal of a handle that is no longer in the registry
\* leaves the registry unchanged.
C19_StaleSignalIgnored ==
    [][\A s \in subscriptions :
          (/\ last'.op = "dismiss_signal"
           /\ s.emitter \notin Handles(notifications[s.ws])
           /\ DismissSignal(s)) => notifications' = notifications]_vars

\* C20: a show_notification_once call that records its pair invokes its builder
\* once, and the view it built is the active entry for the pair afterwards.
C20_RecordedMeansShown ==
    [][\A key \in OnceKeys : \A view \in BuildersOf(key[1]) :
          (/\ last'.op = "show_notification_once"
           /\ tracker' # tracker
           /\ ShowNotificationOnce(Main, key[1], key[2], view)) =>
              /\ Len(views') = Len(views) + 1
              /\ Count(notifications'[Main], key[1], key[2]) = 1
              /\ EntryOf(notifications'[Main], key[1], key[2]).handle = Len(views')]_vars

\* C13: the once-tracker is shared by the workspaces of the process and the
\* registries are not.  After show_notification_once(kind, id) on any workspace
\* the pair is reported as shown; the call on a workspace is a no-op that builds
\* nothing when the pair was recorded before, by whichever workspace; and an
\* operation on one workspace leaves the registries of the others unchanged.
C13_TrackerSharedRegistriesNot ==
    [][/\ \A w \in Workspaces, key \in OnceKeys : \A view \in BuildersOf(key[1]) :
             (/\ last'.op = "show_notification_once"
              /\ last'.ws = w
              /\ ShowNotificationOnce(w, key[1], key[2], view)) =>
                 /\ HasShownNotificationOnce(tracker', key[1], key[2])
                 /\ Recorded(tracker, key[1], key[2]) =>
                        (RegistryUntouched /\ tracker' = tracker)
       /\ \A w \in Workspaces \ {last'.ws} : notifications'[w] = notifications[w]]_vars

\* the pair was recorded by a call on w1, whose notification is displayed there;
\* the call on w2 was then refused and built nothing
C13_Witness ==
    /\ last.op = "show_notification_once"
    /\ last.ws = "w2"
    /\ last.effects = <<>>
    /\ notifications["w2"] = <<>>
    /\ Len(notifications["w1"]) = 1
    /\ Len(views) = 1
    /\ Recorded(tracker, notifications["w1"][1].type_id, notifications["w1"][1].id)
====
